---- MODULE Spec2Model ----
(***************************************************************************)
(* A model of sync.go: Iterate (one listing producer per store), doSync    *)
(* (the merge-join diff and the replication workers), replicate and Sync.  *)
(*                                                                         *)
(* Keys are modelled by the naturals 0..MaxKey under their usual order;    *)
(* 0 stands for the empty string "", the least key of the byte order.      *)
(* A nil *object.Object (the listing failure marker) is NilObj.            *)
(* The object stores are external: every List call returns either an       *)
(* error or a page of at most MaxResults keys. Under Spec the pages honour *)
(* the contract of List (keys ascending, resuming strictly after marker);  *)
(* under SpecAnyStore a page is any sequence of keys.                      *)
(***************************************************************************)
EXTENDS Integers, Sequences, FiniteSets, TLC

\* ---------------------------------------------------------------- bounds
MaxKey == 3
MaxList == 2
MaxIterList == 3
MaxThreads == 2
MaxSize == 4
MaxTicks == 1

\* ------------------------------------------------------ program constants
\* sync.go:20 (10240 in the source, scaled); also the capacity of `out`
MaxResults == 2
\* sync.go:21 (10 << 20 in the source, scaled)
maxBlock == 2
\* sync.go:116 (1024 in the source, scaled)
TodoCap == 1

Keys == 0..MaxKey
NilObj == -1
Stores == {"src", "dst"}
Bytes == {0, 1}

VARIABLES
  contract,   \* the stores honour the contract of List
  threads,    \* *threads
  marker,     \* marker[s]: Iterate's `marker` variable for store s
  end,        \* Sync's `end` argument
  ipc,        \* ipc[s]: position of Iterate's goroutine for store s
  objs,       \* objs[s]: the page being ranged over
  idx,        \* idx[s]: index of the next record of objs[s]
  lastkey,    \* lastkey[s]
  out,        \* out[s]: contents of the channel `out`
  outClosed,  \* out[s] is closed
  pc,         \* position of the thread running Sync/doSync
  cur,        \* doSync's `obj`
  dstkey,     \* doSync's dstkey
  hasMore,    \* doSync's hasMore
  todo,       \* contents of the channel `todo`
  todoClosed,
  wpc,        \* wpc[w]: position of worker w
  wobj,       \* wobj[w]: the obj worker w dequeued
  found, missing, copied, failed,
  aborted,    \* logger.Fatalf has ended the process
  ret,        \* what Sync returned: "none" (not yet), "nil", "err"
  \* history variables
  listed,     \* listed[s]: every key the List calls on s have returned
  calls,      \* calls[s]: number of List calls on s
  failedCall, \* failedCall[s]: number of the List call that failed, 0 if none
  sent,       \* sent[s]: everything sent on out[s]
  enq,        \* keys sent on todo, in order
  started,    \* keys replicate was invoked with, in order
  written,    \* keys successfully Put to the destination
  nput,       \* number of successful Puts
  okKeys,     \* keys whose replicate call was counted in copied
  goneKeys,   \* keys whose replicate call found them gone from the source
  \* the replicate call studied on its own (SpecReplicate)
  rIn,        \* its inputs
  rOut,       \* <<its result>>, empty until it returns
  prog        \* showProgress: its position, its locals and the ticks it has made

vars == <<contract, threads, marker, end, ipc, objs, idx, lastkey, out, outClosed, pc,
          cur, dstkey, hasMore, todo, todoClosed, wpc, wobj, found, missing,
          copied, failed, aborted, ret, listed, calls, failedCall, sent, enq,
          started, written, nput, okKeys, goneKeys, rIn, rOut, prog>>

iterVars == <<marker, ipc, objs, idx, lastkey, out, outClosed, listed, calls,
              failedCall, sent>>
syncVars == <<pc, cur, dstkey, hasMore, ret>>
poolVars == <<wpc, wobj, copied, failed, started, written, nput, okKeys, goneKeys>>
repVars == <<rIn, rOut>>

Min(a, b) == IF a < b THEN a ELSE b

\* ------------------------------------------------------------ the stores
\* An object of the source store: absent, or present with its bytes.
Contents == UNION {[1..n -> Bytes] : n \in 0..MaxSize}
SrcObjects == [present : BOOLEAN, data : Contents]

\* store.Get(key, off, limit): the bytes [off, off+limit) of the object,
\* to its end when limit = -1.
Get(o, off, limit) ==
  IF limit = -1 THEN SubSeq(o.data, off + 1, Len(o.data))
  ELSE SubSeq(o.data, off + 1, Min(off + limit, Len(o.data)))

\* store.Exists(key) returns nil exactly when the object is there.
Exists(o) == IF o.present THEN "nil" ELSE "err"

\* The call of replicate that fails for a reason of its own, if any.
Faults == {"none", "Get", "ReadAll", "TempFile", "Write", "Get2", "Copy",
           "Seek", "Put"}

\* ------------------------------------------------------------- replicate
\* The result of replicate: the error returned, whether dst.Put succeeded
\* and with which bytes, the ranges asked of src.Get, and len(data).
Result(e, p, b, g, m) == [err |-> e, put |-> p, body |-> b, gets |-> g, mem |-> m]

\* Lines 69-72: the limit of the first src.Get.
FirstBlock(size) == IF size > maxBlock THEN maxBlock ELSE -1

\* GetFailed with the test of line 75 inverted.
GetFailedInverted(o) == IF Exists(o) = "nil" THEN FALSE ELSE TRUE

\* Lines 74-79: the first src.Get failed; TRUE when replicate returns e,
\* FALSE when it returns nil because the key is gone from the source.
GetFailed(o) == IF Exists(o) # "nil" THEN FALSE ELSE TRUE

\* SecondOffset one byte too far.
SecondOffsetPlusOne(data) == Len(data) + 1

\* Line 99: the offset of the second src.Get.
SecondOffset(data) == Len(data)

replicate(size, o, fault) ==
  LET firstBlock == FirstBlock(size)
      g1 == <<<<0, firstBlock>>>>
      data == Get(o, 0, firstBlock)
      rest == Get(o, SecondOffset(data), -1)
      g2 == Append(g1, <<SecondOffset(data), -1>>)
      m == Len(data)
  IN  IF ~o.present \/ fault = "Get" THEN
        Result(GetFailed(o), FALSE, <<>>, g1, 0)
      ELSE IF fault = "ReadAll" THEN Result(TRUE, FALSE, <<>>, g1, m)
      ELSE IF firstBlock = -1 THEN
        IF fault = "Put" THEN Result(TRUE, FALSE, <<>>, g1, m)
        ELSE Result(FALSE, TRUE, data, g1, m)
      ELSE IF fault \in {"TempFile", "Write"} THEN Result(TRUE, FALSE, <<>>, g1, m)
      ELSE IF fault \in {"Get2", "Copy", "Seek", "Put"} THEN Result(TRUE, FALSE, <<>>, g2, m)
      ELSE Result(FALSE, TRUE, data \o rest, g2, m)

Sizes == 0..MaxSize
ReplicateInputs == [size : Sizes, o : SrcObjects, fault : Faults]
\* What a call of replicate can do to the counters and the destination.
\* Line 76: the call returned nil because the key was gone from the source.
Gone(o, err) == ~o.present /\ ~err

ReplicateOutcomes ==
  {LET r == replicate(i.size, i.o, i.fault) IN <<r.err, r.put, Gone(i.o, r.err)>> :
     i \in ReplicateInputs}

\* --------------------------------------------------------------- Iterate
Pages == UNION {[1..n -> Keys] : n \in 0..MaxResults}
Workers == 1..MaxThreads

\* p is ascending and resumes strictly after marker m.
Ascending(p, m) ==
  \A i \in 1..Len(p) : p[i] > (IF i = 1 THEN m ELSE p[i - 1])

\* store.List("", marker, MaxResults) returns an error or a page. A store
\* that honours the contract returns an ascending page past marker; any
\* other store returns any page, and at most MaxList records in all
\* (MaxIterList when Iterate is run on its own).
ListPages(s) ==
  IF contract THEN {p \in Pages : Ascending(p, marker[s])}
  ELSE {p \in Pages : Len(listed[s]) + Len(p) <=
                          (IF pc = "alone" THEN MaxIterList ELSE MaxList)}

ListResults(s) ==
  {[err |-> TRUE, page |-> <<>>]} \cup {[err |-> FALSE, page |-> p] : p \in ListPages(s)}

\* The bookkeeping of one List call on s with result r.
Listed(s, r) ==
  /\ calls' = [calls EXCEPT ![s] = @ + 1]
  /\ listed' = [listed EXCEPT ![s] = @ \o r.page]
  /\ failedCall' = [failedCall EXCEPT ![s] = IF r.err THEN calls[s] + 1 ELSE @]

\* Lines 32-37 and 64, run by the thread of Sync: the first List call, and
\* the start of the goroutine (which closes out at once on an empty page).
Iterate(s, r) ==
  /\ Listed(s, r)
  /\ IF r.err
     THEN UNCHANGED <<marker, ipc, objs, idx, lastkey, out, outClosed, sent>>
     ELSE /\ objs' = [objs EXCEPT ![s] = r.page]
          /\ idx' = [idx EXCEPT ![s] = 1]
          /\ lastkey' = [lastkey EXCEPT ![s] = 0]
          /\ ipc' = [ipc EXCEPT ![s] = IF r.page = <<>> THEN "closed" ELSE "page"]
          /\ outClosed' = [outClosed EXCEPT ![s] = (r.page = <<>>)]
          /\ UNCHANGED <<marker, out, sent>>

\* PastEnd letting a key equal to end through.
PastEndStrict(key, e) == e # 0 /\ key > e

\* Line 47: key is at or past a non-empty end.
PastEnd(key, e) == e # 0 /\ key >= e

\* Lines 42-53: one record of the page. Fatalf ends the process; a key at
\* or past end leaves both loops and closes out; otherwise the record is
\* sent (blocking while out is full) and after the last record of the page
\* marker becomes lastkey.
IterRecord(s) ==
  /\ ipc[s] = "page"
  /\ LET key == objs[s][idx[s]] IN
     IF key # 0 /\ key <= lastkey[s] THEN
       /\ aborted' = TRUE
       /\ UNCHANGED iterVars
     ELSE IF PastEnd(key, end) THEN
       /\ ipc' = [ipc EXCEPT ![s] = "closed"]
       /\ outClosed' = [outClosed EXCEPT ![s] = TRUE]
       /\ UNCHANGED <<aborted, marker, objs, idx, lastkey, out, listed, calls,
                      failedCall, sent>>
     ELSE
       /\ Len(out[s]) < MaxResults
       /\ lastkey' = [lastkey EXCEPT ![s] = key]
       /\ out' = [out EXCEPT ![s] = Append(@, key)]
       /\ sent' = [sent EXCEPT ![s] = Append(@, key)]
       /\ idx' = [idx EXCEPT ![s] = @ + 1]
       /\ IF idx[s] = Len(objs[s])
          THEN /\ marker' = [marker EXCEPT ![s] = key]
               /\ ipc' = [ipc EXCEPT ![s] = "list"]
          ELSE UNCHANGED <<marker, ipc>>
       /\ UNCHANGED <<aborted, objs, outClosed, listed, calls, failedCall>>
  /\ UNCHANGED <<contract, threads, end, syncVars, todo, todoClosed, poolVars, found,
                 missing, enq, repVars, prog>>

\* IterList closing out after a failed List without sending the marker.
IterListNoMarker(s) ==
  /\ ipc[s] = "list"
  /\ \E r \in ListResults(s) :
       /\ Listed(s, r)
       /\ IF r.err THEN
            /\ ipc' = [ipc EXCEPT ![s] = "closed"]
            /\ outClosed' = [outClosed EXCEPT ![s] = TRUE]
            /\ UNCHANGED <<objs, idx>>
          ELSE
            /\ objs' = [objs EXCEPT ![s] = r.page]
            /\ idx' = [idx EXCEPT ![s] = 1]
            /\ ipc' = [ipc EXCEPT ![s] = IF r.page = <<>> THEN "closed" ELSE "page"]
            /\ outClosed' = [outClosed EXCEPT ![s] = (r.page = <<>>)]
  /\ UNCHANGED <<marker, lastkey, out, sent>>
  /\ UNCHANGED <<contract, threads, end, syncVars, todo, todoClosed, poolVars, found,
                 missing, enq, aborted, repVars, prog>>

\* Lines 54-55 and 41: the next List call of the goroutine.
IterList(s) ==
  /\ ipc[s] = "list"
  /\ \E r \in ListResults(s) :
       /\ Listed(s, r)
       /\ IF r.err THEN
            /\ ipc' = [ipc EXCEPT ![s] = "nil"]
            /\ UNCHANGED <<objs, idx, outClosed>>
          ELSE
            /\ objs' = [objs EXCEPT ![s] = r.page]
            /\ idx' = [idx EXCEPT ![s] = 1]
            /\ ipc' = [ipc EXCEPT ![s] = IF r.page = <<>> THEN "closed" ELSE "page"]
            /\ outClosed' = [outClosed EXCEPT ![s] = (r.page = <<>>)]
  /\ UNCHANGED <<marker, lastkey, out, sent>>
  /\ UNCHANGED <<contract, threads, end, syncVars, todo, todoClosed, poolVars, found,
                 missing, enq, aborted, repVars, prog>>

\* Lines 57-62: the failure marker is sent (blocking while out is full),
\* then out is closed.
IterNil(s) ==
  /\ ipc[s] = "nil"
  /\ Len(out[s]) < MaxResults
  /\ out' = [out EXCEPT ![s] = Append(@, NilObj)]
  /\ sent' = [sent EXCEPT ![s] = Append(@, NilObj)]
  /\ ipc' = [ipc EXCEPT ![s] = "closed"]
  /\ outClosed' = [outClosed EXCEPT ![s] = TRUE]
  /\ UNCHANGED <<marker, objs, idx, lastkey, listed, calls, failedCall>>
  /\ UNCHANGED <<contract, threads, end, syncVars, todo, todoClosed, poolVars, found,
                 missing, enq, aborted, repVars, prog>>

\* ------------------------------------------------------------------ Sync
\* SyncIterate dropping the error of Iterate.
SyncIterateErrDropped(s) ==
  /\ pc = (IF s = "src" THEN "iterSrc" ELSE "iterDst")
  /\ \E r \in ListResults(s) :
       /\ Iterate(s, r)
       /\ pc' = (IF s = "src" THEN "iterDst" ELSE "range")
       /\ ret' = ret
  /\ UNCHANGED <<contract, threads, end, cur, dstkey, hasMore, todo, todoClosed, poolVars,
                 found, missing, enq, aborted, repVars, prog>>

\* Lines 200-207: cha, err := Iterate(src, ...) and chb, err := Iterate(dst, ...);
\* an error is returned at once.
SyncIterate(s) ==
  /\ pc = (IF s = "src" THEN "iterSrc" ELSE "iterDst")
  /\ \E r \in ListResults(s) :
       /\ Iterate(s, r)
       /\ IF r.err
          THEN pc' = "returned" /\ ret' = "err"
          ELSE pc' = (IF s = "src" THEN "iterDst" ELSE "range") /\ ret' = ret
  /\ UNCHANGED <<contract, threads, end, cur, dstkey, hasMore, todo, todoClosed, poolVars,
                 found, missing, enq, aborted, repVars, prog>>

\* ---------------------------------------------------------------- doSync
\* AfterCompare with line 160 comparing obj.Key <= dstkey.
AfterCompareLe(k, dk, hm) ==
  IF hm /\ k > dk THEN "advance"
  ELSE IF k <= dk \/ ~hm THEN "send"
  ELSE "range"

\* Lines 148 and 160: where doSync goes with source key k, given dstkey dk
\* and hasMore hm: on with the inner loop, to the send on todo, or to the
\* next source record.
AfterCompare(k, dk, hm) ==
  IF hm /\ k > dk THEN "advance"
  ELSE IF k < dk \/ ~hm THEN "send"
  ELSE "range"

\* OnSource counting the failure marker in found.
OnSourceCountNil(obj, ok) ==
  [stop |-> ~ok \/ obj = NilObj, count |-> ok]

\* Lines 142-147: what the next value of srckeys does: whether the loop
\* ends (channel closed and drained, or nil) and whether found is
\* incremented.
OnSource(obj, ok) ==
  [stop |-> ~ok \/ obj = NilObj, count |-> ok /\ obj # NilObj]

\* Lines 142-148, 165: the next value of srckeys. The end of the loop
\* closes todo; a record is counted in found and compared with dstkey.
SyncRange ==
  /\ pc = "range"
  /\ out["src"] # <<>> \/ outClosed["src"]
  /\ LET ok == out["src"] # <<>>
         obj == IF ok THEN Head(out["src"]) ELSE NilObj
         o == OnSource(obj, ok)
     IN /\ out' = [out EXCEPT !["src"] = IF ok THEN Tail(@) ELSE @]
        /\ found' = IF o.count THEN found + 1 ELSE found
        /\ cur' = IF o.stop THEN cur ELSE obj
        /\ todoClosed' = o.stop
        /\ pc' = IF o.stop THEN "wait" ELSE AfterCompare(obj, dstkey, hasMore)
  /\ UNCHANGED <<contract, threads, end, marker, ipc, objs, idx, lastkey, outClosed,
                 listed, calls, failedCall, sent, dstkey, hasMore, ret, todo,
                 poolVars, missing, enq, aborted, repVars, prog>>

\* Advance taking a nil from dstkeys for the end of the destination.
AdvanceNilAsEnd(dstobj, ok, dk) ==
  IF ~ok \/ dstobj = NilObj THEN [hasMore |-> FALSE, dstkey |-> dk, stop |-> FALSE]
  ELSE [hasMore |-> TRUE, dstkey |-> dstobj, stop |-> FALSE]

\* Lines 149-158: what dstobj, ok := <-dstkeys does to hasMore and dstkey,
\* and whether it leaves the loop OUT.
Advance(dstobj, ok, dk) ==
  IF ~ok THEN [hasMore |-> FALSE, dstkey |-> dk, stop |-> FALSE]
  ELSE IF dstobj = NilObj THEN [hasMore |-> TRUE, dstkey |-> dk, stop |-> TRUE]
  ELSE [hasMore |-> TRUE, dstkey |-> dstobj, stop |-> FALSE]

\* Lines 148-160, 165: one receive from dstkeys in the inner loop.
SyncAdvance ==
  /\ pc = "advance"
  /\ out["dst"] # <<>> \/ outClosed["dst"]
  /\ LET ok == out["dst"] # <<>>
         a == Advance(IF ok THEN Head(out["dst"]) ELSE NilObj, ok, dstkey)
     IN /\ out' = [out EXCEPT !["dst"] = IF ok THEN Tail(@) ELSE @]
        /\ hasMore' = a.hasMore
        /\ dstkey' = a.dstkey
        /\ todoClosed' = a.stop
        /\ pc' = IF a.stop THEN "wait" ELSE AfterCompare(cur, a.dstkey, a.hasMore)
  /\ UNCHANGED <<contract, threads, end, marker, ipc, objs, idx, lastkey, outClosed,
                 listed, calls, failedCall, sent, cur, ret, todo, poolVars,
                 found, missing, enq, aborted, repVars, prog>>

\* Line 161: todo <- obj, blocking while todo is full.
SyncSend ==
  /\ pc = "send"
  /\ Len(todo) < TodoCap
  /\ todo' = Append(todo, cur)
  /\ enq' = Append(enq, cur)
  /\ pc' = "inc"
  /\ UNCHANGED <<contract, threads, end, iterVars, cur, dstkey, hasMore, ret, todoClosed,
                 poolVars, found, missing, aborted, repVars, prog>>

\* SyncInc without the increment of missing.
SyncIncForgotten ==
  /\ pc = "inc"
  /\ missing' = missing
  /\ pc' = "range"
  /\ UNCHANGED <<contract, threads, end, iterVars, cur, dstkey, hasMore, ret, todo,
                 todoClosed, poolVars, found, enq, aborted, repVars, prog>>

\* Line 162: atomic.AddUint64(&missing, 1).
SyncInc ==
  /\ pc = "inc"
  /\ missing' = missing + 1
  /\ pc' = "range"
  /\ UNCHANGED <<contract, threads, end, iterVars, cur, dstkey, hasMore, ret, todo,
                 todoClosed, poolVars, found, enq, aborted, repVars, prog>>

\* SyncWait without wg.Wait().
SyncNoWait ==
  /\ pc = "wait"
  /\ pc' = "returned"
  /\ ret' = "nil"
  /\ UNCHANGED <<contract, threads, end, iterVars, cur, dstkey, hasMore, todo, todoClosed,
                 poolVars, found, missing, enq, aborted, repVars, prog>>

\* Lines 166, 214-216: wg.Wait() returns once every worker is done; Sync
\* logs the counters and returns nil.
SyncWait ==
  /\ pc = "wait"
  /\ \A w \in Workers : wpc[w] \in {"none", "exit"}
  /\ pc' = "returned"
  /\ ret' = "nil"
  /\ UNCHANGED <<contract, threads, end, iterVars, cur, dstkey, hasMore, todo, todoClosed,
                 poolVars, found, missing, enq, aborted, repVars, prog>>

\* --------------------------------------------------------------- workers
\* WorkerTake never noticing that todo is closed.
WorkerTakeNoExit(w) ==
  /\ wpc[w] = "idle"
  /\ pc \notin {"iterSrc", "iterDst"}
  /\ todo # <<>>
  /\ wobj' = [wobj EXCEPT ![w] = Head(todo)]
  /\ todo' = Tail(todo)
  /\ started' = Append(started, Head(todo))
  /\ wpc' = [wpc EXCEPT ![w] = "rep"]
  /\ UNCHANGED <<contract, threads, end, iterVars, syncVars, todoClosed, copied, failed,
                 written, nput, okKeys, goneKeys, found, missing, enq, aborted,
                 repVars, prog>>

\* Lines 123-126: obj, ok := <-todo.
WorkerTake(w) ==
  /\ wpc[w] = "idle"
  /\ pc \notin {"iterSrc", "iterDst"}
  /\ IF todo # <<>> THEN
       /\ wobj' = [wobj EXCEPT ![w] = Head(todo)]
       /\ todo' = Tail(todo)
       /\ started' = Append(started, Head(todo))
       /\ wpc' = [wpc EXCEPT ![w] = "rep"]
     ELSE
       /\ todoClosed
       /\ wpc' = [wpc EXCEPT ![w] = "exit"]
       /\ UNCHANGED <<wobj, todo, started>>
  /\ UNCHANGED <<contract, threads, end, iterVars, syncVars, todoClosed, copied, failed,
                 written, nput, okKeys, goneKeys, found, missing, enq, aborted,
                 repVars, prog>>

\* Counted with the two counters swapped.
CountedSwapped(err) ==
  IF err THEN copied' = copied + 1 /\ failed' = failed
  ELSE failed' = failed + 1 /\ copied' = copied

\* Lines 128-133: the counter a call of replicate leads to.
Counted(err) ==
  IF err THEN failed' = failed + 1 /\ copied' = copied
  ELSE copied' = copied + 1 /\ failed' = failed

\* Lines 128-133: replicate(src, dst, obj) and its counter.
WorkerReplicate(w) ==
  /\ wpc[w] = "rep"
  /\ \E oc \in ReplicateOutcomes :
       /\ Counted(oc[1])
       /\ IF oc[2]
          THEN written' = written \cup {wobj[w]} /\ nput' = nput + 1
          ELSE UNCHANGED <<written, nput>>
       /\ okKeys' = (IF oc[1] THEN okKeys ELSE okKeys \cup {wobj[w]})
       /\ goneKeys' = (IF oc[3] THEN goneKeys \cup {wobj[w]} ELSE goneKeys)
  /\ wpc' = [wpc EXCEPT ![w] = "idle"]
  /\ UNCHANGED <<contract, threads, end, iterVars, syncVars, todo, todoClosed, wobj,
                 started, found, missing, enq, aborted, repVars, prog>>

\* ---------------------------------------------------------- showProgress
\* Arithmetic on the uint64 counters wraps; the width is scaled down.
UintMod == 2^16
width == 80

\* showProgress at position p of its loop after n ticks, its locals zero.
Progress(p, n) == [pc |-> p, ticks |-> n, f |-> 0, same |-> 0, a |-> 0, b |-> 0, pct |-> 0]

\* Line 173, left operand: atomic.LoadUint64(&found), at the start of a tick.
ShowLoadFound ==
  /\ prog.pc = "ready"
  /\ prog.ticks < MaxTicks
  /\ pc \notin {"iterSrc", "iterDst"}
  /\ prog' = [prog EXCEPT !.pc = "loadMissing", !.f = found]
  /\ UNCHANGED <<contract, threads, end, iterVars, syncVars, todo, todoClosed, poolVars,
                 found, missing, enq, aborted, repVars>>

\* Line 173, right operand: atomic.LoadUint64(&missing), and the subtraction.
ShowLoadMissing ==
  /\ prog.pc = "loadMissing"
  /\ prog' = [prog EXCEPT !.pc = "a", !.same = (prog.f - missing) % UintMod]
  /\ UNCHANGED <<contract, threads, end, iterVars, syncVars, todo, todoClosed, poolVars,
                 found, missing, enq, aborted, repVars>>

\* An integer division by zero panics, which ends the process.
ShowDivide(n, next, field) ==
  IF found = 0
  THEN prog' = [prog EXCEPT !.pc = "panic"] /\ aborted' = TRUE
  ELSE prog' = [prog EXCEPT !.pc = next, ![field] = (n % UintMod) \div found]
         /\ aborted' = aborted

\* Line 175: a := width * same / found.
ShowA ==
  /\ prog.pc = "a"
  /\ ShowDivide(width * prog.same, "b", "a")
  /\ UNCHANGED <<contract, threads, end, iterVars, syncVars, todo, todoClosed, poolVars,
                 found, missing, enq, repVars>>

\* Line 176: b := width * copied / found.
ShowB ==
  /\ prog.pc = "b"
  /\ ShowDivide(width * copied, "print", "b")
  /\ UNCHANGED <<contract, threads, end, iterVars, syncVars, todo, todoClosed, poolVars,
                 found, missing, enq, repVars>>

\* Line 192: the percentage (found-missing+copied)*100/found is printed.
ShowPrint ==
  /\ prog.pc = "print"
  /\ ShowDivide(((found - missing + copied) % UintMod) * 100, "sleep", "pct")
  /\ UNCHANGED <<contract, threads, end, iterVars, syncVars, todo, todoClosed, poolVars,
                 found, missing, enq, repVars>>

\* Line 193 and back to line 172: the tick is over.
ShowSleep ==
  /\ prog.pc = "sleep"
  /\ prog' = Progress("ready", prog.ticks + 1)
  /\ UNCHANGED <<contract, threads, end, iterVars, syncVars, todo, todoClosed, poolVars,
                 found, missing, enq, aborted, repVars>>

showProgress ==
  \/ ShowLoadFound
  \/ ShowLoadMissing
  \/ ShowA
  \/ ShowB
  \/ ShowPrint
  \/ ShowSleep

\* ------------------------------------------------------- specifications
Markers == {0, 1}
Ends == {0, MaxKey}

NoInput == [size |-> 0, o |-> [present |-> FALSE, data |-> <<>>], fault |-> "none"]

InitSync(C, T, M, E) ==
  /\ contract = C
  /\ threads = T
  /\ marker = [s \in Stores |-> M]
  /\ end = E
  /\ ipc = [s \in Stores |-> "idle"]
  /\ objs = [s \in Stores |-> <<>>]
  /\ idx = [s \in Stores |-> 1]
  /\ lastkey = [s \in Stores |-> 0]
  /\ out = [s \in Stores |-> <<>>]
  /\ outClosed = [s \in Stores |-> FALSE]
  /\ pc = (IF T = 0 THEN "alone" ELSE "iterSrc")
  /\ cur = 0
  /\ dstkey = 0
  /\ hasMore = TRUE
  /\ todo = <<>>
  /\ todoClosed = FALSE
  /\ wpc = [w \in Workers |-> IF w <= T THEN "idle" ELSE "none"]
  /\ wobj = [w \in Workers |-> 0]
  /\ found = 0
  /\ missing = 0
  /\ copied = 0
  /\ failed = 0
  /\ aborted = FALSE
  /\ ret = "none"
  /\ listed = [s \in Stores |-> <<>>]
  /\ calls = [s \in Stores |-> 0]
  /\ failedCall = [s \in Stores |-> 0]
  /\ sent = [s \in Stores |-> <<>>]
  /\ enq = <<>>
  /\ started = <<>>
  /\ written = {}
  /\ nput = 0
  /\ okKeys = {}
  /\ goneKeys = {}

Init ==
  /\ \E T \in 1..MaxThreads, M \in Markers, E \in Ends : InitSync(TRUE, T, M, E)
  /\ rIn = NoInput
  /\ rOut = <<>>
  /\ prog = Progress("off", 0)

Next ==
  /\ ~aborted
  /\ pc # "returned"
  /\ \/ \E s \in Stores : SyncIterate(s)
     \/ \E s \in Stores : IterRecord(s)
     \/ \E s \in Stores : IterList(s)
     \/ \E s \in Stores : IterNil(s)
     \/ SyncRange
     \/ SyncAdvance
     \/ SyncSend
     \/ SyncInc
     \/ SyncWait
     \/ \E w \in Workers : WorkerTake(w)
     \/ \E w \in Workers : WorkerReplicate(w)

Spec == Init /\ [][Next]_vars

\* The scheduler runs some goroutine that can take a step.
SpecFair == Init /\ [][Next]_vars /\ WF_vars(Next)

\* Sync on a terminal, neither verbose nor quiet (lines 209-212): the
\* program with showProgress running beside doSync.
InitProgress ==
  /\ InitSync(TRUE, 1, 0, 0)
  /\ rIn = NoInput
  /\ rOut = <<>>
  /\ prog = Progress("ready", 0)

NextProgress ==
  \/ Next
  \/ ~aborted /\ pc # "returned" /\ showProgress

SpecProgress == InitProgress /\ [][NextProgress]_vars

\* The same program over stores that return arbitrary pages.
InitAnyStore ==
  /\ \E T \in 1..MaxThreads, M \in Markers, E \in Ends : InitSync(FALSE, T, M, E)
  /\ rIn = NoInput
  /\ rOut = <<>>
  /\ prog = Progress("off", 0)

SpecAnyStore == InitAnyStore /\ [][Next]_vars

\* One pass of the worker's loop body (lines 128-133) on its own, the
\* inputs of its replicate call drawn by the initial state.
RunReplicate ==
  /\ rOut = <<>>
  /\ LET r == replicate(rIn.size, rIn.o, rIn.fault) IN
       /\ rOut' = <<r>>
       /\ Counted(r.err)
       /\ IF r.put THEN written' = {0} /\ nput' = nput + 1
          ELSE UNCHANGED <<written, nput>>
       /\ okKeys' = (IF r.err THEN {} ELSE {0})
       /\ goneKeys' = (IF Gone(rIn.o, r.err) THEN {0} ELSE {})
  /\ UNCHANGED <<contract, threads, end, iterVars, syncVars, todo, todoClosed,
                 wpc, wobj, started, found, missing, enq, aborted, rIn, prog>>

InitReplicate ==
  /\ InitSync(TRUE, 1, 0, 0)
  /\ rIn \in ReplicateInputs
  /\ rOut = <<>>
  /\ prog = Progress("off", 0)

NextReplicate == RunReplicate

SpecReplicate == InitReplicate /\ [][NextReplicate]_vars

\* Iterate on its own, over a store that returns arbitrary pages, with a
\* caller that receives from the channel whenever it likes.
IterateAlone(s) ==
  /\ pc = "alone"
  /\ calls[s] = 0
  /\ \E r \in ListResults(s) : Iterate(s, r)
  /\ UNCHANGED <<contract, threads, end, syncVars, todo, todoClosed, poolVars,
                 found, missing, enq, aborted, repVars, prog>>

Receive(s) ==
  /\ pc = "alone"
  /\ out[s] # <<>>
  /\ out' = [out EXCEPT ![s] = Tail(@)]
  /\ UNCHANGED <<contract, threads, end, marker, ipc, objs, idx, lastkey,
                 outClosed, listed, calls, failedCall, sent, syncVars, todo,
                 todoClosed, poolVars, found, missing, enq, aborted, repVars, prog>>

InitIterate ==
  /\ \E M \in Markers, E \in Ends :
       InitSync(FALSE, 0, M, E)
  /\ rIn = NoInput
  /\ rOut = <<>>
  /\ prog = Progress("off", 0)

NextIterate ==
  /\ ~aborted
  /\ \/ IterateAlone("src")
     \/ IterRecord("src")
     \/ IterList("src")
     \/ IterNil("src")
     \/ Receive("src")

SpecIterate == InitIterate /\ [][NextIterate]_vars

\* ================================================================ claims
Range(q) == {q[i] : i \in 1..Len(q)}
Returned == pc = "returned" /\ ret = "nil"
NoListFailure == \A s \in Stores : failedCall[s] = 0
NotAtDst(k) == k \notin Range(listed["dst"])
NoRepeat(q) == \A i, j \in 1..Len(q) : i # j => q[i] # q[j]
\* doSync has received the failure marker of store s.
NilReceived(s) == NilObj \in Range(sent[s]) /\ NilObj \notin Range(out[s])

\* C1: over stores that honour the List contract and with no List failure,
\* when Sync has returned the keys sent on todo are exactly the records the
\* source iterator yielded whose key the destination never listed, in the
\* source's order and without repetition; with an empty destination
\* listing they are all the source records.
C1_DiffIsSourceMinusDest ==
  (Returned /\ NoListFailure) =>
    /\ enq = SelectSeq(sent["src"], NotAtDst)
    /\ NoRepeat(enq)
    /\ (listed["dst"] = <<>> => enq = sent["src"])

C1_Witness ==
  /\ Returned /\ NoListFailure
  /\ Len(sent["src"]) = 3
  /\ listed["dst"] # <<>>
  /\ Len(enq) = 2

\* C2: whether or not a listing fails, every key sent on todo is a key the
\* source yielded, is none of the keys the destination listed, and lies
\* below a listed destination key unless the destination listing ended
\* without failure (so no key of a sorted continuation can equal it);
\* hasMore is never cleared by a destination failure; and once doSync has
\* received the destination's failure marker the loop is over, todo is
\* closed and the source record in hand has not been sent.
C2_OnlyKeysAbsentAtDst ==
  /\ \A i \in 1..Len(enq) :
       /\ enq[i] \in Range(sent["src"])
       /\ NotAtDst(enq[i])
       /\ \/ \E j \in 1..Len(listed["dst"]) : listed["dst"][j] > enq[i]
          \/ outClosed["dst"] /\ failedCall["dst"] = 0
  /\ ~hasMore => failedCall["dst"] = 0
  /\ NilReceived("dst") =>
       /\ pc \in {"wait", "returned"}
       /\ todoClosed
       /\ cur \notin Range(enq)
       /\ missing = Len(enq)

C2_Witness ==
  /\ NilReceived("dst")
  /\ Returned
  /\ enq # <<>>
  /\ found > Len(enq)

\* C3: over stores that honour the List contract and with no List failure,
\* when Sync has returned found is the number of source records and
\* missing the number of them the destination did not list; for the source
\* 1,2,3 and the destination 2 with no failed replication, found = 3,
\* missing = 2 and copied = 2.
C3_FoundAndMissing ==
  (Returned /\ NoListFailure) =>
    /\ found = Len(sent["src"])
    /\ missing = Cardinality({k \in Range(sent["src"]) : NotAtDst(k)})
    /\ (Range(sent["src"]) = Range(listed["dst"]) => missing = 0)
    /\ (sent["src"] = <<1, 2, 3>> /\ listed["dst"] = <<2>> /\ failed = 0) =>
         (found = 3 /\ missing = 2 /\ copied = 2)

C3_Witness ==
  /\ Returned /\ NoListFailure
  /\ sent["src"] = <<1, 2, 3>>
  /\ listed["dst"] = <<2>>
  /\ failed = 0

\* C4: every key sent on todo is either still queued or was handed to
\* exactly one replicate call, in order; every replicate call that has
\* returned has incremented exactly one of copied and failed; and when
\* doSync has returned nothing is queued or running and
\* copied + failed = missing.
C4_EachItemReplicatedOnce ==
  /\ enq = started \o todo
  /\ Len(started) = copied + failed + Cardinality({w \in Workers : wpc[w] = "rep"})
  /\ Returned =>
       /\ todo = <<>>
       /\ started = enq
       /\ \A w \in Workers : wpc[w] # "rep"
       /\ copied + failed = missing

C4_Witness ==
  /\ Returned
  /\ threads = 2
  /\ copied >= 1
  /\ failed >= 1
  /\ missing = 3

\* C5: when the process aborts on an out-of-order key, no replicate call
\* has started and nothing has been written to the destination.
C5_NoReplicationBeforeAbort ==
  aborted => (started = <<>> /\ nput = 0)

\* C6: among the records Iterate has emitted, every non-empty key is
\* strictly greater than every non-empty key emitted before it.
C6_EmittedKeysIncrease ==
  \A s \in Stores : \A i, j \in 1..Len(sent[s]) :
    (i < j /\ sent[s][i] > 0 /\ sent[s][j] > 0) => sent[s][i] < sent[s][j]

\* C7: once doSync has received the source's failure marker the loop is
\* over and todo is closed, found is the number of records sent before the
\* marker, no error is returned, and when Sync has returned every key sent
\* on todo has been replicated; a source that yields one record and then
\* fails, against an empty destination listing and with no failed
\* replication, ends with found = 1, missing = 1, copied = 1.
C7_SourceFailureStopsTheDiff ==
  NilReceived("src") =>
    /\ pc \in {"wait", "returned"}
    /\ todoClosed
    /\ found = Len(sent["src"]) - 1
    /\ missing = Len(enq)
    /\ ret # "err"
    /\ pc = "returned" =>
         /\ ret = "nil"
         /\ started = enq /\ todo = <<>>
         /\ copied + failed = missing
         /\ (/\ Len(sent["src"]) = 2
             /\ listed["dst"] = <<>> /\ failedCall["dst"] = 0
             /\ failed = 0) => (found = 1 /\ missing = 1 /\ copied = 1)

C7_Witness ==
  /\ NilReceived("src")
  /\ pc = "returned"
  /\ failedCall["src"] = 2
  /\ Len(sent["src"]) = 2
  /\ listed["dst"] = <<>> /\ failedCall["dst"] = 0
  /\ copied = 1

\* C8: Sync has returned an error exactly when the first List call of the
\* source or of the destination has failed; then no record has been
\* received from either channel, nothing has been queued, replicated or
\* written and all four counters are 0; whenever Sync has returned and no
\* first List call failed, it returned nil.
C8_ErrorOnlyFromFirstList ==
  /\ (ret = "err") <=> (failedCall["src"] = 1 \/ failedCall["dst"] = 1)
  /\ pc = "returned" => ret \in {"nil", "err"}
  /\ ret = "err" =>
       /\ pc = "returned"
       /\ found = 0 /\ missing = 0 /\ copied = 0 /\ failed = 0
       /\ enq = <<>> /\ started = <<>> /\ nput = 0
       /\ \A s \in Stores : out[s] = sent[s]

C8_Witness ==
  /\ ret = "err"
  /\ failedCall["dst"] = 1
  /\ sent["src"] # <<>>

\* C9: when the first src.Get of a replicate call fails, then if the key is
\* gone from the source the call returns nil, nothing is written and
\* copied, not failed, is incremented; and if the key is still there the
\* call returns the error, nothing is written and failed is incremented.
C9_VanishedSourceIsNoFailure ==
  (rOut # <<>> /\ (~rIn.o.present \/ rIn.fault = "Get")) =>
    IF ~rIn.o.present
    THEN ~rOut[1].err /\ ~rOut[1].put /\ nput = 0 /\ failed = 0 /\ copied = 1
    ELSE rOut[1].err /\ ~rOut[1].put /\ nput = 0 /\ failed = 1 /\ copied = 0

C9_Witness ==
  /\ rOut # <<>>
  /\ ~rIn.o.present
  /\ rIn.size > maxBlock
  /\ failed = 0

\* C10: for a source object that is present and whose size is the size
\* recorded in the listing, a replicate call that returns nil has put
\* exactly the object's bytes; up to maxBlock it asked for the whole object
\* in one Get, above maxBlock for the first maxBlock bytes and then for
\* everything from offset maxBlock on.
C10_BytesIdentical ==
  (/\ rOut # <<>>
   /\ rIn.o.present
   /\ rIn.size = Len(rIn.o.data)
   /\ ~rOut[1].err) =>
    /\ rOut[1].put
    /\ rOut[1].body = rIn.o.data
    /\ nput = 1
    /\ IF rIn.size <= maxBlock
       THEN rOut[1].gets = <<<<0, -1>>>>
       ELSE /\ rOut[1].gets = <<<<0, maxBlock>>, <<maxBlock, -1>>>>
            /\ rOut[1].body = SubSeq(rIn.o.data, 1, maxBlock)
                                \o SubSeq(rIn.o.data, maxBlock + 1, Len(rIn.o.data))

C10_Witness ==
  /\ rOut # <<>>
  /\ rIn.o.present
  /\ rIn.size = Len(rIn.o.data)
  /\ rIn.size = maxBlock + 1
  /\ ~rOut[1].err
  /\ rOut[1].body[maxBlock] # rOut[1].body[maxBlock + 1]

\* Iterate met, at the record it stopped on, a key at or past end.
MetEnd(s) ==
  /\ ipc[s] = "closed"
  /\ idx[s] <= Len(objs[s])
  /\ PastEnd(objs[s][idx[s]], end)

\* The last Len(p) keys of q are p.
EndsWith(q, p) ==
  Len(p) <= Len(q) /\ SubSeq(q, Len(q) - Len(p) + 1, Len(q)) = p

\* C12: with a non-empty end, whatever pages the stores return, no key at
\* or past end is ever sent by an iterator, queued or handed to replicate,
\* and found counts only such source records; an iterator that met a key
\* at or past end has closed its channel without a failure marker and the
\* page holding that key is the last one it asked for.
C12_NothingAtOrPastEnd ==
  end # 0 =>
    /\ \A s \in Stores : \A i \in 1..Len(sent[s]) : sent[s][i] < end
    /\ \A i \in 1..Len(enq) : enq[i] < end
    /\ found <= Cardinality({i \in 1..Len(sent["src"]) : sent["src"][i] # NilObj})
    /\ \A s \in Stores :
         MetEnd(s) =>
           /\ outClosed[s]
           /\ NilObj \notin Range(sent[s])
           /\ failedCall[s] = 0
           /\ EndsWith(listed[s], objs[s])

C12_Witness ==
  /\ MetEnd("src")
  /\ Returned
  /\ found = 1
  /\ Len(listed["src"]) = 2

\* C13: whenever Iterate sends the first record of a page and its key is
\* not empty, that key is strictly greater than the marker the page was
\* asked with (marker[s] keeps that marker until the page's last record).
C13_FirstKeyPastMarker ==
  [][\A s \in Stores :
       (/\ ipc[s] = "page"
        /\ idx[s] = 1
        /\ objs[s][1] # 0
        /\ sent'[s] # sent[s]) => objs[s][1] > marker[s]]_vars

\* C14: what Iterate has sent is records followed by at most one failure
\* marker, which is then the last thing sent; nothing is sent once the
\* channel is closed; a marker has been sent only if the last List call,
\* which was not the first, failed; and a stream that is closed carries
\* the marker exactly when a List call after the first failed.
C14_StreamShape ==
  \A s \in Stores :
    /\ \A i \in 1..Len(sent[s]) : sent[s][i] = NilObj => i = Len(sent[s])
    /\ outClosed[s] <=> ipc[s] = "closed"
    /\ NilObj \in Range(sent[s]) =>
         /\ outClosed[s]
         /\ failedCall[s] = calls[s]
         /\ calls[s] >= 2
    /\ outClosed[s] => (NilObj \in Range(sent[s]) <=> failedCall[s] >= 2)
    /\ failedCall[s] = 1 => (sent[s] = <<>> /\ ~outClosed[s])
    /\ failedCall[s] >= 2 => ipc[s] \in {"nil", "closed"}

C14_Witness ==
  /\ NilObj \in Range(sent["src"])
  /\ Len(sent["src"]) = 3
  /\ calls["src"] = 3

\* C15: over stores that honour the List contract, with 1..MaxThreads
\* workers and replicate calls that return, Sync eventually returns under
\* weak fairness, with or without List failures; todo is closed exactly
\* when doSync has left its loop, which it never re-enters, and stays
\* closed; and when Sync has returned from doSync todo is empty and every
\* worker has exited.
C15_SyncReturns ==
  /\ <>(pc = "returned")
  /\ [](todoClosed <=> (pc = "wait" \/ Returned))
  /\ [][(pc \in {"wait", "returned"}) => (pc' \in {"wait", "returned"})]_vars
  /\ [](Returned =>
          /\ todo = <<>>
          /\ \A w \in Workers : wpc[w] \in {"none", "exit"})

C15_Witness ==
  /\ Returned
  /\ threads = 2
  /\ NilReceived("dst")
  /\ started # <<>>
  /\ \A w \in Workers : wpc[w] = "exit"

\* The goroutine of store s is at a send on out (line 51 or 57) and out is
\* full.
BlockedOnOut(s) ==
  /\ Len(out[s]) = MaxResults
  /\ \/ ipc[s] = "nil"
     \/ /\ ipc[s] = "page"
        /\ LET key == objs[s][idx[s]] IN
             /\ ~(key # 0 /\ key <= lastkey[s])
             /\ ~PastEnd(key, end)

\* C16: when Sync has returned, no listing goroutine is blocked sending on
\* its out channel.
C16_NoProducerBlockedAtReturn ==
  pc = "returned" => \A s \in Stores : ~BlockedOnOut(s)

\* C17: when a replicate call has returned, the bytes it held in memory at
\* any one time were at most maxBlock, whatever the size of the object at
\* the source at the time of the read.
C17_MemoryWithinMaxBlock ==
  rOut # <<>> => rOut[1].mem <= maxBlock

\* C18: in every state of a sync copied + failed <= missing <= found, and
\* no step decreases found, missing, copied or failed.
C18_CountersOrdered ==
  /\ copied + failed <= missing
  /\ missing <= found

C18_CountersNeverDecrease ==
  [][/\ found' >= found /\ missing' >= missing
     /\ copied' >= copied /\ failed' >= failed]_vars

\* C20: when doSync has returned, copied is the number of Puts that
\* succeeded plus the number of replicate calls that found their key gone
\* from the source, and every key counted in copied was written to the
\* destination or was gone from the source.
C20_CopiedIsWrittenOrGone ==
  Returned =>
    /\ copied = nput + Cardinality(goneKeys)
    /\ Cardinality(okKeys) = copied
    /\ okKeys = written \cup goneKeys
    /\ written \cap goneKeys = {}

C20_Witness ==
  Returned /\ nput = 1 /\ Cardinality(goneKeys) = 1 /\ copied = 2 /\ failed = 1

\* C20 as stated: when doSync has returned, copied is the number of Puts
\* that succeeded and every key counted in copied is at the destination.
C20_CopiedEqualsWrites ==
  Returned => (copied = nput /\ okKeys \subseteq written)

\* C11: a tick of showProgress never crashes the process, whatever the
\* counters hold, found = 0 included.
C11_TickNeverCrashes ==
  prog.pc # "panic"

\* C19: at the end of a tick that loaded found > 0, found - missing has
\* not wrapped around, the two segments of the bar together are at most
\* width and the percentage is between 0 and 100.
C19_TickValuesInRange ==
  (prog.pc = "sleep" /\ prog.f > 0) =>
    /\ prog.same <= prog.f
    /\ prog.a + prog.b <= width
    /\ prog.pct \in 0..100

====
